---- MODULE Spec2Model ----
(***************************************************************************)
(* Model of the ndn-cxx security core:                                     *)
(*   - SecPublicInfoMemory, the in-memory identity/key/certificate store   *)
(*     (src/security/sec-public-info-memory.cpp)                           *)
(*   - Certificate::encode / Certificate::decode                           *)
(*     (src/security/certificate.cpp)                                      *)
(*   - ValidatorNull::checkPolicy (src/security/validator-null.hpp)        *)
(***************************************************************************)
EXTENDS Integers, Sequences, FiniteSets, TLC

VARIABLES
  m_identityStore,     \* std::vector<std::string>: identity URIs, in insertion order
  m_keyStore,          \* std::map<std::string, KeyRecord>: key URI -> [keyType, key]
  m_certificateStore,  \* std::map<std::string, IdentityCertificate>: cert URI -> certificate
  m_defaultIdentity,   \* std::string: URI of the default identity, or the empty string
  m_defaultKeyName,    \* Name
  m_defaultCert,       \* Name
  ret,                 \* the last store call: operation, arguments, exception, result
  cert,                \* the encoding Certificate: m_notBefore, m_notAfter, m_subjectDescriptionList,
                       \* m_key, m_extensionList
  content,             \* the content of the Data packet: a sequence of bytes
  rcv,                 \* the decoding Certificate, or NoCertificate
  threw,               \* whether the last decode() ended with an exception
  cpc,                 \* what the certificate scenario has done last
  tooEarly,            \* the last isTooEarly() call: the clock it read, its result
  tooLate,             \* the last isTooLate() call: the clock it read, its result
  vcall,               \* the checkPolicy call in progress: item, nSteps, nextSteps as passed
  onValidatedCalls,    \* the items passed to onValidated, in call order
  onValidationFailedCalls, \* the items passed to onValidationFailed, in call order
  nextSteps,           \* the caller's std::vector<shared_ptr<ValidationRequest> >
  vpc,                 \* "idle", "called" or "returned"
  top,                 \* the top-level validate call: its item and its step budget
  current,             \* what policy evaluation inspects: a name and its step counter
  requests,            \* the ValidationRequests constructed so far, in order
  outcome,             \* the continuations invoked for the top-level call, in order
  epc                  \* "idle", "policy", "fetching" or "failed"

storeVars == <<m_identityStore, m_keyStore, m_certificateStore,
               m_defaultIdentity, m_defaultKeyName, m_defaultCert>>

codecVars == <<cert, content, rcv, threw, cpc>>

clockVars == <<tooEarly, tooLate>>

validatorVars == <<vcall, onValidatedCalls, onValidationFailedCalls, nextSteps, vpc>>

escalationVars == <<top, current, requests, outcome, epc>>

vars == <<m_identityStore, m_keyStore, m_certificateStore,
          m_defaultIdentity, m_defaultKeyName, m_defaultCert, ret,
          cert, content, rcv, threw, cpc, tooEarly, tooLate,
          vcall, onValidatedCalls, onValidationFailedCalls, nextSteps, vpc,
          top, current, requests, outcome, epc>>

----------------------------------------------------------------------------
(* Bounds of the model *)

\* public keys are the opaque values 1..MaxKeyBits
MaxKeyBits == 2

Keys == 1..MaxKeyBits

KEY_TYPE_RSA == "KEY_TYPE_RSA"
KEY_TYPE_ECDSA == "KEY_TYPE_ECDSA"

\* a Name is a sequence of components; EmptyName is Name()
EmptyName == << >>

\* the names callers pass as identity names
IdentityNames == { EmptyName, <<"a">> }

\* the names callers pass as key names
KeyNames == { <<"a">>, <<"a", "k">> }

\* the names certificates carry
CertNames == { <<"a", "k", "c">> }

\* the certificate names of the runs that store several certificates per key
MoreCertNames == CertNames \cup { <<"a", "k", "d">> }

\* an IdentityCertificate as the store sees it: getName(), getPublicKeyName(),
\* getPublicKeyInfo()
Certificates == [name : CertNames, publicKeyName : KeyNames, publicKeyInfo : Keys]

MoreCertificates ==
  [name : MoreCertNames, publicKeyName : KeyNames, publicKeyInfo : Keys]

\* the (keyType, key) pairs callers pass to addPublicKey
KeyInputs == { <<KEY_TYPE_RSA, 1>>, <<KEY_TYPE_ECDSA, MaxKeyBits>> }

\* the names a caller passes to setDefaultIdentity
AnyNames == IdentityNames \cup KeyNames

\* the (nameList, isDefault) arguments a caller passes to an enumeration
ListInputs == { << << >>, TRUE >>, << << <<"a">> >>, FALSE >> }

----------------------------------------------------------------------------
(* Name: the conversions the store relies on *)

RECURSIVE toUri(_)
\* Name::toUri: "/" for the empty name, else "/" before every component
toUri(name) ==
  IF name = << >> THEN <<"/">>
  ELSE IF Len(name) = 1 THEN <<"/", name[1]>>
  ELSE toUri(SubSeq(name, 1, Len(name) - 1)) \o <<"/", name[Len(name)]>>

\* Name(const std::string& uri): the components between the separators
NameFromUri(uri) == SelectSeq(uri, LAMBDA c : c # "/")

\* Name::getPrefix(-1): all components but the last
getPrefix(name) == IF name = << >> THEN << >> ELSE SubSeq(name, 1, Len(name) - 1)

\* the empty std::string
EmptyString == << >>

----------------------------------------------------------------------------
(* SecPublicInfoMemory: queries *)

\* std::find over m_identityStore
FindIdentity(store, identityUri) ==
  \E i \in 1..Len(store) : store[i] = identityUri

doesIdentityExist(identityName) == FindIdentity(m_identityStore, toUri(identityName))

doesPublicKeyExist(keyName) == toUri(keyName) \in DOMAIN m_keyStore

doesCertificateExist(certificateName) == toUri(certificateName) \in DOMAIN m_certificateStore

getDefaultIdentity == NameFromUri(m_defaultIdentity)

\* getDefaultKeyNameForIdentity that reports the default key only to the
\* identity that owns it
getDefaultKeyNameForIdentity_owned(identityName) ==
  IF getPrefix(m_defaultKeyName) = identityName THEN m_defaultKeyName ELSE EmptyName

getDefaultKeyNameForIdentity(identityName) == m_defaultKeyName

getDefaultCertificateNameForKey(keyName) == m_defaultCert

\* std::map::operator[] followed by assignment
MapPut(map, key, value) ==
  [u \in (DOMAIN map) \cup {key} |-> IF u = key THEN value ELSE map[u]]

\* the record of a store call
Call(op, name, arg, err, val) ==
  [op |-> op, name |-> name, arg |-> arg, err |-> err, val |-> val]

NoError == "ok"
NoValue == "void"

\* the nameList of a call that takes none
NoList == << >>

----------------------------------------------------------------------------
(* SecPublicInfoMemory: operations *)

\* IdentityStoreAdd without the early return for an identity already present
IdentityStoreAdd_push(store, identityName) == Append(store, toUri(identityName))

\* m_identityStore after addIdentity(identityName)
IdentityStoreAdd(store, identityName) ==
  IF FindIdentity(store, toUri(identityName))
  THEN store
  ELSE Append(store, toUri(identityName))

\* KeyStoreAdd with std::map::insert in place of operator[]: an existing record
\* is kept
KeyStoreAdd_insert(store, keyName, keyType, publicKey) ==
  IF toUri(keyName) \in DOMAIN store
  THEN store
  ELSE MapPut(store, toUri(keyName), [keyType |-> keyType, key |-> publicKey])

\* m_keyStore after addPublicKey(keyName, keyType, publicKey)
KeyStoreAdd(store, keyName, keyType, publicKey) ==
  MapPut(store, toUri(keyName), [keyType |-> keyType, key |-> publicKey])

\* CertificateStoreAdd with std::map::insert in place of operator[]
CertificateStoreAdd_insert(store, certificate) ==
  IF toUri(certificate.name) \in DOMAIN store
  THEN store
  ELSE MapPut(store, toUri(certificate.name), certificate)

\* m_certificateStore after the assignment at the end of addCertificate
CertificateStoreAdd(store, certificate) ==
  MapPut(store, toUri(certificate.name), certificate)

addIdentity(identityName) ==
  /\ m_identityStore' = IdentityStoreAdd(m_identityStore, identityName)
  /\ ret' = Call("addIdentity", identityName, NoValue, NoError, NoValue)
  /\ UNCHANGED <<m_keyStore, m_certificateStore, m_defaultIdentity,
                 m_defaultKeyName, m_defaultCert>>

addPublicKey(keyName, keyType, publicKey) ==
  /\ m_identityStore' = IdentityStoreAdd(m_identityStore, getPrefix(keyName))
  /\ m_keyStore' = KeyStoreAdd(m_keyStore, keyName, keyType, publicKey)
  /\ ret' = Call("addPublicKey", keyName, <<keyType, publicKey>>, NoError, NoValue)
  /\ UNCHANGED <<m_certificateStore, m_defaultIdentity,
                 m_defaultKeyName, m_defaultCert>>

\* addCertificate that calls addPublicKey only when the key name is not stored
addCertificate_ifabsent(certificate) ==
  /\ m_identityStore' =
       IdentityStoreAdd(m_identityStore, getPrefix(certificate.publicKeyName))
  /\ m_keyStore' =
       IF toUri(certificate.publicKeyName) \in DOMAIN m_keyStore
       THEN m_keyStore
       ELSE KeyStoreAdd(m_keyStore, certificate.publicKeyName, KEY_TYPE_RSA,
                        certificate.publicKeyInfo)
  /\ m_certificateStore' = CertificateStoreAdd(m_certificateStore, certificate)
  /\ ret' = Call("addCertificate", certificate.name, certificate, NoError, NoValue)
  /\ UNCHANGED <<m_defaultIdentity, m_defaultKeyName, m_defaultCert>>

\* addCertificate without the call of addPublicKey
addCertificate_nokey(certificate) ==
  /\ m_identityStore' =
       IdentityStoreAdd(m_identityStore, getPrefix(certificate.publicKeyName))
  /\ m_certificateStore' = CertificateStoreAdd(m_certificateStore, certificate)
  /\ ret' = Call("addCertificate", certificate.name, certificate, NoError, NoValue)
  /\ UNCHANGED <<m_keyStore, m_defaultIdentity, m_defaultKeyName, m_defaultCert>>

addCertificate(certificate) ==
  LET certificateName == certificate.name
      keyName == certificate.publicKeyName
      identity == getPrefix(keyName)
      \* addIdentity(identity)
      ids1 == IdentityStoreAdd(m_identityStore, identity)
      \* addPublicKey(keyName, KEY_TYPE_RSA, certificate.getPublicKeyInfo())
      ids2 == IdentityStoreAdd(ids1, getPrefix(keyName))
  IN /\ m_identityStore' = ids2
     /\ m_keyStore' = KeyStoreAdd(m_keyStore, keyName, KEY_TYPE_RSA,
                                  certificate.publicKeyInfo)
     /\ m_certificateStore' = CertificateStoreAdd(m_certificateStore, certificate)
     /\ ret' = Call("addCertificate", certificateName, certificate, NoError, NoValue)
     /\ UNCHANGED <<m_defaultIdentity, m_defaultKeyName, m_defaultCert>>

\* GetPublicKeyResult without the check against m_keyStore.end()
GetPublicKeyResult_nocheck(keyName) ==
  [err |-> NoError,
   val |-> IF toUri(keyName) \in DOMAIN m_keyStore
           THEN m_keyStore[toUri(keyName)].key ELSE NoValue]

\* the exception or the key that getPublicKey(keyName) ends with
GetPublicKeyResult(keyName) ==
  IF toUri(keyName) \notin DOMAIN m_keyStore
  THEN [err |-> "SecPublicInfoMemory::getPublicKey", val |-> NoValue]
  ELSE [err |-> NoError, val |-> m_keyStore[toUri(keyName)].key]

getPublicKey(keyName) ==
  /\ ret' = Call("getPublicKey", keyName, NoValue,
                 GetPublicKeyResult(keyName).err, GetPublicKeyResult(keyName).val)
  /\ UNCHANGED storeVars

\* the exception or the certificate that getCertificate(certificateName) ends with
GetCertificateResult(certificateName) ==
  IF toUri(certificateName) \notin DOMAIN m_certificateStore
  THEN [err |-> "SecPublicInfoMemory::getCertificate", val |-> NoValue]
  ELSE [err |-> NoError, val |-> m_certificateStore[toUri(certificateName)]]

getCertificate(certificateName) ==
  /\ ret' = Call("getCertificate", certificateName, NoValue,
                 GetCertificateResult(certificateName).err,
                 GetCertificateResult(certificateName).val)
  /\ UNCHANGED storeVars

\* DefaultIdentityAfterSet without the else branch that clears the default
DefaultIdentityAfterSet_noclear(identityName) ==
  IF FindIdentity(m_identityStore, toUri(identityName))
  THEN toUri(identityName)
  ELSE m_defaultIdentity

\* m_defaultIdentity after setDefaultIdentityInternal(identityName)
DefaultIdentityAfterSet(identityName) ==
  IF FindIdentity(m_identityStore, toUri(identityName))
  THEN toUri(identityName)
  ELSE EmptyString

setDefaultIdentityInternal(identityName) ==
  /\ m_defaultIdentity' = DefaultIdentityAfterSet(identityName)
  /\ ret' = Call("setDefaultIdentityInternal", identityName,
                 doesIdentityExist(identityName), NoError, NoValue)
  /\ UNCHANGED <<m_identityStore, m_keyStore, m_certificateStore,
                 m_defaultKeyName, m_defaultCert>>

\* m_defaultKeyName after setDefaultKeyNameForIdentityInternal(keyName)
DefaultKeyNameAfterSet(keyName) == keyName

setDefaultKeyNameForIdentityInternal(keyName) ==
  /\ m_defaultKeyName' = DefaultKeyNameAfterSet(keyName)
  /\ ret' = Call("setDefaultKeyNameForIdentityInternal", keyName, NoValue,
                 NoError, NoValue)
  /\ UNCHANGED <<m_identityStore, m_keyStore, m_certificateStore,
                 m_defaultIdentity, m_defaultCert>>

\* m_defaultCert after setDefaultCertificateNameForKeyInternal(certificateName)
DefaultCertAfterSet(certificateName) == certificateName

setDefaultCertificateNameForKeyInternal(certificateName) ==
  /\ m_defaultCert' = DefaultCertAfterSet(certificateName)
  /\ ret' = Call("setDefaultCertificateNameForKeyInternal", certificateName, NoValue,
                 NoError, NoValue)
  /\ UNCHANGED <<m_identityStore, m_keyStore, m_certificateStore,
                 m_defaultIdentity, m_defaultKeyName>>

----------------------------------------------------------------------------
(* SecPublicInfoMemory: the operations that are not implemented *)

\* NotImplemented with an enumeration that fills the list before it throws
NotImplemented_fill(op, list, what) ==
  /\ ret' = Call(op, EmptyName, list, what,
                 list \o [i \in 1..Len(m_identityStore) |-> NameFromUri(m_identityStore[i])])
  /\ UNCHANGED storeVars

\* a call that throws Error(what) before it touches anything; ret.arg is the
\* caller's nameList as passed and ret.val the same vector as the call leaves it
NotImplemented(op, list, what) ==
  /\ ret' = Call(op, EmptyName, list, what, list)
  /\ UNCHANGED storeVars

revokeIdentity ==
  NotImplemented("revokeIdentity", NoList,
                 "SecPublicInfoMemory::revokeIdentity not implemented")

getAllIdentities(list, isDefault) ==
  NotImplemented("getAllIdentities", list,
                 "SecPublicInfoMemory::getAllIdentities not implemented")

getAllKeyNames(list, isDefault) ==
  NotImplemented("getAllKeyNames", list,
                 "SecPublicInfoMemory::getAllKeyNames not implemented")

getAllKeyNamesOfIdentity(identity, list, isDefault) ==
  NotImplemented("getAllKeyNamesOfIdentity", list,
                 "SecPublicInfoMemory::getAllKeyNamesOfIdentity not implemented")

getAllCertificateNames(list, isDefault) ==
  NotImplemented("getAllCertificateNames", list,
                 "SecPublicInfoMemory::getAllCertificateNames not implemented")

getAllCertificateNamesOfKey(keyName, list, isDefault) ==
  NotImplemented("getAllCertificateNamesOfKey", list,
                 "SecPublicInfoMemory::getAllCertificateNamesOfKey not implemented")

deleteCertificateInfo(certName) ==
  NotImplemented("deleteCertificateInfo", NoList,
                 "SecPublicInfoMemory::deleteCertificateInfo not implemented")

deletePublicKeyInfo(keyName) ==
  NotImplemented("deletePublicKeyInfo", NoList,
                 "SecPublicInfoMemory::deletePublicKeyInfo not implemented")

deleteIdentityInfo(identityName) ==
  NotImplemented("deleteIdentityInfo", NoList,
                 "SecPublicInfoMemory::deleteIdentityInfo not implemented")

----------------------------------------------------------------------------
(* Certificate: the values of its members *)

\* time points are 0..MaxTime
MaxTime == 2

\* m_subjectDescriptionList holds at most MaxSubject entries
MaxSubject == 2

\* m_extensionList holds at most MaxExtension entries
MaxExtension == 1

TimePoints == 0..MaxTime

\* time::system_clock::TimePoint::min() and ::max()
TimePointMin == 0
TimePointMax == MaxTime

\* CertificateSubjectDescription: (oid, value)
SubjectDescriptions == { [oid |-> 1, value |-> 65], [oid |-> 2, value |-> 66] }

\* CertificateExtension: (oid, critical, value)
Extensions == { [oid |-> 3, critical |-> FALSE, value |-> 9],
                [oid |-> 4, critical |-> TRUE, value |-> 9] }

\* PublicKey: the key bytes; a default-constructed PublicKey has none
PublicKeys == { <<k>> : k \in Keys }
EmptyKey == << >>

SeqsUpTo(S, n) == UNION { [1..k -> S] : k \in 0..n }

\* the certificates a caller builds with the setters
CertificateValues ==
  [m_notBefore : TimePoints, m_notAfter : TimePoints,
   m_subjectDescriptionList : SeqsUpTo(SubjectDescriptions, MaxSubject),
   m_key : PublicKeys,
   m_extensionList : SeqsUpTo(Extensions, MaxExtension)]

\* Certificate::Certificate()
DefaultCertificate ==
  [m_notBefore |-> TimePointMax, m_notAfter |-> TimePointMin,
   m_subjectDescriptionList |-> << >>, m_key |-> EmptyKey, m_extensionList |-> << >>]

\* no Certificate object: the constructor threw
NoCertificate == [destroyed |-> TRUE]

----------------------------------------------------------------------------
(* The DER primitives that encode() and decode() call *)

SEQUENCE == 48
SET == 49
GENERALIZED_TIME == 24

\* the largest length a single length byte states
MaxShortLength == 127

\* the ASCII code of the digit 0
AsciiZero == 48

\* DERSequenceEncoder ... MessageEnd(): tag, length, body
DERSequenceEncoder(body) == <<SEQUENCE, Len(body)>> \o body

\* DEREncodeGeneralTime: tag, length, the time as decimal text
DEREncodeGeneralTime(time) ==
  <<GENERALIZED_TIME, 2, AsciiZero + (time \div 10), AsciiZero + (time % 10)>>

\* CertificateSubjectDescription::encode
EncodeSubjectDescription(d) == <<SET, 2, d.oid, d.value>>

\* PublicKey::encode
EncodePublicKey(key) == <<SEQUENCE, Len(key)>> \o key

\* CertificateExtension::encode
EncodeExtension(e) ==
  <<SEQUENCE, 3, e.oid, (IF e.critical THEN 255 ELSE 0), e.value>>

Min(a, b) == IF a < b THEN a ELSE b

Failed == [ok |-> FALSE]

\* BERSequenceDecoder over the bytes `in` still available in the enclosing
\* decoder: the tag and a one-byte length are read at construction; the body is
\* what the stated length covers of the bytes at hand, and short says that the
\* stated length runs past them
BERSequenceDecoder(in) ==
  IF Len(in) < 2 \/ in[1] # SEQUENCE \/ in[2] > MaxShortLength
  THEN Failed
  ELSE [ok |-> TRUE,
        body |-> SubSeq(in, 3, 2 + Min(in[2], Len(in) - 2)),
        short |-> in[2] > Len(in) - 2,
        rest |-> SubSeq(in, 3 + Min(in[2], Len(in) - 2), Len(in))]

\* BERGeneralDecoder::EndReached with `left` the bytes of the body not yet read
EndReached(decoder, left) == left = << >> /\ ~decoder.short

\* BERGeneralDecoder::MessageEnd: throws unless the stated length is used up
MessageEndOk(decoder, left) == left = << >> /\ ~decoder.short

IsDigit(b) == b >= AsciiZero /\ b <= AsciiZero + 9

\* BERDecodeTime: tag, length, then the text parsed back to a time point
BERDecodeTime(in) ==
  IF Len(in) < 2 \/ in[1] # GENERALIZED_TIME \/ in[2] > Len(in) - 2
  THEN Failed
  ELSE LET text == SubSeq(in, 3, 2 + in[2])
       IN IF Len(text) # 2 \/ ~IsDigit(text[1]) \/ ~IsDigit(text[2])
          THEN Failed
          ELSE [ok |-> TRUE,
                val |-> 10 * (text[1] - AsciiZero) + (text[2] - AsciiZero),
                rest |-> SubSeq(in, 5, Len(in))]

\* CertificateSubjectDescription(BufferedTransformation&)
DecodeSubjectDescription(in) ==
  IF Len(in) < 4 \/ in[1] # SET \/ in[2] # 2
  THEN Failed
  ELSE [ok |-> TRUE, val |-> [oid |-> in[3], value |-> in[4]],
        rest |-> SubSeq(in, 5, Len(in))]

\* PublicKey::decode
DecodePublicKey(in) ==
  IF Len(in) < 2 \/ in[1] # SEQUENCE \/ in[2] > Len(in) - 2
  THEN Failed
  ELSE [ok |-> TRUE, val |-> SubSeq(in, 3, 2 + in[2]),
        rest |-> SubSeq(in, 3 + in[2], Len(in))]

\* CertificateExtension(BufferedTransformation&)
DecodeExtension(in) ==
  IF Len(in) < 5 \/ in[1] # SEQUENCE \/ in[2] # 3 \/ in[4] \notin {0, 255}
  THEN Failed
  ELSE [ok |-> TRUE,
        val |-> [oid |-> in[3], critical |-> (in[4] = 255), value |-> in[5]],
        rest |-> SubSeq(in, 6, Len(in))]

----------------------------------------------------------------------------
(* Certificate::encode *)

RECURSIVE EncodeSubjectDescriptionList(_)
\* the loop over m_subjectDescriptionList
EncodeSubjectDescriptionList(list) ==
  IF list = << >> THEN << >>
  ELSE EncodeSubjectDescription(Head(list)) \o EncodeSubjectDescriptionList(Tail(list))

RECURSIVE EncodeExtensionList(_)
\* the loop over m_extensionList
EncodeExtensionList(list) ==
  IF list = << >> THEN << >>
  ELSE EncodeExtension(Head(list)) \o EncodeExtensionList(Tail(list))

\* Certificate::encode with the closing time written from m_notBefore
EncodeCertificate_notBeforeTwice(c) ==
  DERSequenceEncoder(
    DERSequenceEncoder(DEREncodeGeneralTime(c.m_notBefore)
                       \o DEREncodeGeneralTime(c.m_notBefore))
    \o DERSequenceEncoder(EncodeSubjectDescriptionList(c.m_subjectDescriptionList))
    \o EncodePublicKey(c.m_key)
    \o (IF c.m_extensionList # << >>
        THEN DERSequenceEncoder(EncodeExtensionList(c.m_extensionList))
        ELSE << >>))

\* the content that Certificate::encode sets
EncodeCertificate(c) ==
  DERSequenceEncoder(
    DERSequenceEncoder(DEREncodeGeneralTime(c.m_notBefore)
                       \o DEREncodeGeneralTime(c.m_notAfter))
    \o DERSequenceEncoder(EncodeSubjectDescriptionList(c.m_subjectDescriptionList))
    \o EncodePublicKey(c.m_key)
    \o (IF c.m_extensionList # << >>
        THEN DERSequenceEncoder(EncodeExtensionList(c.m_extensionList))
        ELSE << >>))

----------------------------------------------------------------------------
(* Certificate::decode *)

RECURSIVE DecodeSubjectDescriptionList(_, _, _)
\* while (!name.EndReached()) push_back(CertificateSubjectDescription(name))
DecodeSubjectDescriptionList(decoder, left, list) ==
  IF EndReached(decoder, left) THEN [ok |-> TRUE, list |-> list]
  ELSE LET d == DecodeSubjectDescription(left)
       IN IF ~d.ok THEN [ok |-> FALSE, list |-> list]
          ELSE DecodeSubjectDescriptionList(decoder, d.rest, Append(list, d.val))

RECURSIVE DecodeExtensionList(_, _, _)
\* while (!extensions.EndReached()) push_back(CertificateExtension(extensions))
DecodeExtensionList(decoder, left, list) ==
  IF EndReached(decoder, left) THEN [ok |-> TRUE, list |-> list]
  ELSE LET e == DecodeExtension(left)
       IN IF ~e.ok THEN [ok |-> FALSE, list |-> list]
          ELSE DecodeExtensionList(decoder, e.rest, Append(list, e.val))

\* decode() has thrown, leaving the object as obj
Thrown(obj) == [threw |-> TRUE, obj |-> obj]

\* decode() has returned
Returned(obj) == [threw |-> FALSE, obj |-> obj]

\* the extensions part of decode (lines 209-223), entered with obj after
\* m_key.decode and `left` the unread bytes of idCert
DecodeExtensions(obj, idCert, left) ==
  LET o6 == [obj EXCEPT !.m_extensionList = << >>]
  IN IF EndReached(idCert, left)
     THEN Returned(o6)
     ELSE LET extensions == BERSequenceDecoder(left)
          IN IF ~extensions.ok THEN Thrown(o6)
             ELSE LET l == DecodeExtensionList(extensions, extensions.body, << >>)
                      o7 == [o6 EXCEPT !.m_extensionList = l.list]
                  IN IF ~l.ok THEN Thrown(o7)
                     ELSE IF MessageEndOk(idCert, extensions.rest)
                          THEN Returned(o7)
                          ELSE Thrown(o7)

\* the subject and key part of decode (lines 188-201), entered with obj after
\* validity.MessageEnd() and `left` the unread bytes of idCert
DecodeSubjectAndKey(obj, idCert, left) ==
  LET o3 == [obj EXCEPT !.m_subjectDescriptionList = << >>]
      name == BERSequenceDecoder(left)
  IN IF ~name.ok THEN Thrown(o3)
     ELSE LET l == DecodeSubjectDescriptionList(name, name.body, << >>)
              o4 == [o3 EXCEPT !.m_subjectDescriptionList = l.list]
          IN IF ~l.ok THEN Thrown(o4)
             ELSE LET key == DecodePublicKey(name.rest)
                  IN IF ~key.ok THEN Thrown(o4)
                     ELSE DecodeExtensions([o4 EXCEPT !.m_key = key.val],
                                           idCert, key.rest)

\* Certificate::decode run on the object obj with the content `bytes`: whether
\* it threw, and the members as it left them
DecodeCertificate(obj, bytes) ==
  LET idCert == BERSequenceDecoder(bytes)
  IN IF ~idCert.ok THEN Thrown(obj)
     ELSE LET validity == BERSequenceDecoder(idCert.body)
          IN IF ~validity.ok THEN Thrown(obj)
             ELSE LET nb == BERDecodeTime(validity.body)
                  IN IF ~nb.ok THEN Thrown(obj)
                     ELSE LET o1 == [obj EXCEPT !.m_notBefore = nb.val]
                              na == BERDecodeTime(nb.rest)
                          IN IF ~na.ok THEN Thrown(o1)
                             ELSE LET o2 == [o1 EXCEPT !.m_notAfter = na.val]
                                  IN IF ~MessageEndOk(validity, na.rest)
                                     THEN Thrown(o2)
                                     ELSE DecodeSubjectAndKey(o2, idCert, validity.rest)

----------------------------------------------------------------------------
(* The certificate scenario: a certificate is built and encoded, or a Data   *)
(* packet with damaged content arrives; a second Certificate object decodes  *)
(* the content                                                               *)

\* the certificate whose encoding arrives damaged
SampleCertificate ==
  [m_notBefore |-> TimePointMin, m_notAfter |-> TimePointMax,
   m_subjectDescriptionList |-> << [oid |-> 1, value |-> 65], [oid |-> 2, value |-> 66] >>,
   m_key |-> <<1>>,
   m_extensionList |-> << [oid |-> 4, critical |-> TRUE, value |-> 9] >>]

\* the content cut after its first n bytes
Truncated(bytes, n) == SubSeq(bytes, 1, n)

\* the content with byte i replaced by 0xFF
Damaged(bytes, i) == [bytes EXCEPT ![i] = 255]

\* the damaged contents that arrive: every proper prefix of the sample's
\* encoding, and the encoding with any one byte replaced
DamagedContents ==
  LET bytes == EncodeCertificate(SampleCertificate)
  IN { Truncated(bytes, n) : n \in 0..(Len(bytes) - 1) }
     \cup { Damaged(bytes, i) : i \in 1..Len(bytes) }

\* the caller sets every member (setNotBefore, setNotAfter, addSubjectDescription,
\* setPublicKeyInfo, addExtension)
populate(c) ==
  /\ cpc = "new"
  /\ cert' = c
  /\ cpc' = "populated"
  /\ UNCHANGED <<content, rcv, threw>>

encode ==
  /\ cpc \in {"new", "populated"}
  /\ content' = EncodeCertificate(cert)
  /\ cpc' = "encoded"
  /\ UNCHANGED <<cert, rcv, threw>>

\* a Data packet arrives whose content is not what encode() produced
receive(bytes) ==
  /\ cpc = "new"
  /\ content' = bytes
  /\ cpc' = "received"
  /\ UNCHANGED <<cert, rcv, threw>>

\* decode() on an existing Certificate (rcv) whose content is `content`
decode ==
  /\ cpc \in {"encoded", "received"}
  /\ rcv' = DecodeCertificate(rcv, content).obj
  /\ threw' = DecodeCertificate(rcv, content).threw
  /\ cpc' = "decoded"
  /\ UNCHANGED <<cert, content>>

\* Certificate::Certificate(const Data&): the new object's members are
\* default-initialized, then decode() runs; an exception leaves no object
CertificateFromData ==
  /\ cpc \in {"encoded", "received"}
  /\ LET r == DecodeCertificate(DefaultCertificate, content)
     IN /\ rcv' = IF r.threw THEN NoCertificate ELSE r.obj
        /\ threw' = r.threw
  /\ cpc' = "constructed"
  /\ UNCHANGED <<cert, content>>

CodecInit ==
  /\ cert = DefaultCertificate
  /\ content = << >>
  /\ rcv = DefaultCertificate
  /\ threw = FALSE
  /\ cpc = "new"

----------------------------------------------------------------------------
(* The validity checks: isTooEarly() and isTooLate() read the system clock   *)
(* and compare it with the members of the certificate                        *)

\* isTooEarly() that compares with <= instead of <
IsTooEarly_le(c, now) == now <= c.m_notBefore

\* Certificate::isTooEarly(), with the value time::system_clock::now() returned
IsTooEarly(c, now) == IF now < c.m_notBefore THEN TRUE ELSE FALSE

\* Certificate::isTooLate(), with the value time::system_clock::now() returned
IsTooLate(c, now) == IF now > c.m_notAfter THEN TRUE ELSE FALSE

\* no call yet
NoCheck == [called |-> FALSE, now |-> TimePointMin, result |-> FALSE]

isTooEarly(now) ==
  /\ cpc \in {"new", "populated", "checked"}
  /\ tooEarly' = [called |-> TRUE, now |-> now, result |-> IsTooEarly(cert, now)]
  /\ cpc' = "checked"
  /\ UNCHANGED <<cert, content, rcv, threw, tooLate>>

isTooLate(now) ==
  /\ cpc \in {"new", "populated", "checked"}
  /\ tooLate' = [called |-> TRUE, now |-> now, result |-> IsTooLate(cert, now)]
  /\ cpc' = "checked"
  /\ UNCHANGED <<cert, content, rcv, threw, tooEarly>>

ClockInit ==
  /\ tooEarly = NoCheck
  /\ tooLate = NoCheck

----------------------------------------------------------------------------
(* ValidatorNull *)

\* items are numbered 1..MaxItem
MaxItem == 3

\* the step budgets passed are 0..MaxSteps
MaxSteps == 3

\* a Data or an Interest packet
Items == [kind : {"Data", "Interest"}, id : 1..MaxItem]

\* the nextSteps vectors a caller passes: the requests already in it
NextStepsLists == SeqsUpTo({"ValidationRequest"}, 2)

\* the caller (Validator::validate) sets up the arguments of checkPolicy
validate(item, nSteps, steps) ==
  /\ vpc \in {"idle", "returned"}
  /\ vcall' = [item |-> item, nSteps |-> nSteps, nextSteps |-> steps]
  /\ onValidatedCalls' = << >>
  /\ onValidationFailedCalls' = << >>
  /\ nextSteps' = steps
  /\ vpc' = "called"

\* checkPolicy(const Data&, ...) that rejects instead of accepting
checkPolicyData_reject ==
  /\ vpc = "called"
  /\ vcall.item.kind = "Data"
  /\ onValidationFailedCalls' = Append(onValidationFailedCalls, vcall.item)
  /\ vpc' = "returned"
  /\ UNCHANGED <<vcall, onValidatedCalls, nextSteps>>

\* ValidatorNull::checkPolicy(const Data&, ...)
checkPolicyData ==
  /\ vpc = "called"
  /\ vcall.item.kind = "Data"
  /\ onValidatedCalls' = Append(onValidatedCalls, vcall.item)
  /\ vpc' = "returned"
  /\ UNCHANGED <<vcall, onValidationFailedCalls, nextSteps>>

\* ValidatorNull::checkPolicy(const Interest&, ...)
checkPolicyInterest ==
  /\ vpc = "called"
  /\ vcall.item.kind = "Interest"
  /\ onValidatedCalls' = Append(onValidatedCalls, vcall.item)
  /\ vpc' = "returned"
  /\ UNCHANGED <<vcall, onValidationFailedCalls, nextSteps>>

ValidatorInit ==
  /\ vcall = [item |-> [kind |-> "Data", id |-> 1], nSteps |-> 0, nextSteps |-> << >>]
  /\ onValidatedCalls = << >>
  /\ onValidationFailedCalls = << >>
  /\ nextSteps = << >>
  /\ vpc = "idle"

----------------------------------------------------------------------------
(* The trust-chain engine under a policy that always escalates to a fresh    *)
(* certificate name; every certificate asked for is fetched and decoded      *)

\* the step bound check that lets a request with counter -1 through
StepBoundExceeded_late(nSteps) == nSteps < 0

\* step bound check: the decremented step counter would fall below zero
StepBoundExceeded(nSteps) == nSteps - 1 < 0

\* the certificate name the policy asks for: one not asked for before
FreshName(reqs) == Len(reqs) + 1

\* entry: the caller submits an item; the step counter starts at the maximum
validateTopLevel(item, maxSteps) ==
  /\ epc = "idle"
  /\ top' = [item |-> item, nSteps |-> maxSteps]
  /\ current' = [name |-> 0, nSteps |-> maxSteps]
  /\ requests' = << >>
  /\ outcome' = << >>
  /\ epc' = "policy"

\* policy evaluation with the always-escalating policy: the step bound check,
\* then a ValidationRequest with the step counter decremented by one
checkPolicyEscalate ==
  /\ epc = "policy"
  /\ IF StepBoundExceeded(current.nSteps)
     THEN /\ outcome' = Append(outcome, [continuation |-> "onValidationFailed",
                                         item |-> top.item,
                                         reason |-> "validation depth exceeded"])
          /\ epc' = "failed"
          /\ UNCHANGED requests
     ELSE /\ requests' = Append(requests, [name |-> FreshName(requests),
                                           nSteps |-> current.nSteps - 1])
          /\ epc' = "fetching"
          /\ UNCHANGED outcome
  /\ UNCHANGED <<top, current>>

\* recursive re-entry: the certificate is fetched and decoded, and is itself
\* submitted to policy evaluation with the step counter of its request
onCertificateFetched ==
  /\ epc = "fetching"
  /\ current' = requests[Len(requests)]
  /\ epc' = "policy"
  /\ UNCHANGED <<top, requests, outcome>>

EscalationInit ==
  /\ top = [item |-> [kind |-> "Data", id |-> 1], nSteps |-> 0]
  /\ current = [name |-> 0, nSteps |-> 0]
  /\ requests = << >>
  /\ outcome = << >>
  /\ epc = "idle"

----------------------------------------------------------------------------
(* The store as a state machine *)

StoreInit ==
  /\ m_identityStore = << >>
  /\ m_keyStore = << >>
  /\ m_certificateStore = << >>
  /\ m_defaultIdentity = EmptyString
  /\ m_defaultKeyName = EmptyName
  /\ m_defaultCert = EmptyName
  /\ ret = Call("SecPublicInfoMemory", EmptyName, NoValue, NoError, NoValue)

\* a step of the store leaves the certificate scenario and the validator alone
StoreOnly == UNCHANGED <<codecVars, clockVars, validatorVars, escalationVars>>

StoreNext ==
  \/ \E n \in IdentityNames : addIdentity(n) /\ StoreOnly
  \/ \E k \in KeyNames, in \in KeyInputs : addPublicKey(k, in[1], in[2]) /\ StoreOnly
  \/ \E c \in Certificates : addCertificate(c) /\ StoreOnly
  \/ \E k \in KeyNames \cup CertNames : getPublicKey(k) /\ StoreOnly
  \/ \E c \in KeyNames \cup CertNames : getCertificate(c) /\ StoreOnly
  \/ \E n \in AnyNames : setDefaultIdentityInternal(n) /\ StoreOnly
  \/ \E k \in KeyNames : setDefaultKeyNameForIdentityInternal(k) /\ StoreOnly
  \/ \E c \in CertNames : setDefaultCertificateNameForKeyInternal(c) /\ StoreOnly
  \/ revokeIdentity /\ StoreOnly
  \/ \E in \in ListInputs : getAllIdentities(in[1], in[2]) /\ StoreOnly
  \/ \E in \in ListInputs : getAllKeyNames(in[1], in[2]) /\ StoreOnly
  \/ \E n \in IdentityNames, in \in ListInputs :
       getAllKeyNamesOfIdentity(n, in[1], in[2]) /\ StoreOnly
  \/ \E in \in ListInputs : getAllCertificateNames(in[1], in[2]) /\ StoreOnly
  \/ \E k \in KeyNames, in \in ListInputs :
       getAllCertificateNamesOfKey(k, in[1], in[2]) /\ StoreOnly
  \/ \E c \in CertNames : deleteCertificateInfo(c) /\ StoreOnly
  \/ \E k \in KeyNames : deletePublicKeyInfo(k) /\ StoreOnly
  \/ \E n \in IdentityNames : deleteIdentityInfo(n) /\ StoreOnly

\* the operations that add to the tables, with two certificate names
AddNext ==
  \/ \E n \in IdentityNames : addIdentity(n) /\ StoreOnly
  \/ \E k \in KeyNames, in \in KeyInputs : addPublicKey(k, in[1], in[2]) /\ StoreOnly
  \/ \E c \in MoreCertificates : addCertificate(c) /\ StoreOnly

CodecOnly == UNCHANGED <<storeVars, ret, clockVars, validatorVars, escalationVars>>

CodecNext ==
  \/ cpc = "new" /\ \E c \in CertificateValues : populate(c) /\ CodecOnly
  \/ encode /\ CodecOnly
  \/ \E bytes \in DamagedContents : receive(bytes) /\ CodecOnly
  \/ decode /\ CodecOnly
  \/ CertificateFromData /\ CodecOnly

ValidityOnly == UNCHANGED <<storeVars, ret, validatorVars, escalationVars>>

\* a certificate is built and its validity period is checked against the clock
ValidityNext ==
  \/ cpc = "new" /\ \E c \in CertificateValues : populate(c) /\ CodecOnly
  \/ \E now \in TimePoints : isTooEarly(now) /\ ValidityOnly
  \/ \E now \in TimePoints : isTooLate(now) /\ ValidityOnly

ValidatorOnly == UNCHANGED <<storeVars, ret, codecVars, clockVars, escalationVars>>

ValidatorNext ==
  \/ \E item \in Items, nSteps \in 0..MaxSteps, steps \in NextStepsLists :
       validate(item, nSteps, steps) /\ ValidatorOnly
  \/ checkPolicyData /\ ValidatorOnly
  \/ checkPolicyInterest /\ ValidatorOnly

EscalationOnly == UNCHANGED <<storeVars, ret, codecVars, clockVars, validatorVars>>

EscalationNext ==
  \/ \E item \in Items, maxSteps \in 0..MaxSteps :
       validateTopLevel(item, maxSteps) /\ EscalationOnly
  \/ checkPolicyEscalate /\ EscalationOnly
  \/ onCertificateFetched /\ EscalationOnly

Init == StoreInit /\ CodecInit /\ ClockInit /\ ValidatorInit /\ EscalationInit

\* the in-memory store
Spec == Init /\ [][StoreNext]_vars

\* the in-memory store filled by its add operations
AddSpec == Init /\ [][AddNext]_vars

\* the certificate codec
CodecSpec == Init /\ [][CodecNext]_vars

\* the validity checks of a certificate
ValiditySpec == Init /\ [][ValidityNext]_vars

\* the trust-chain engine with the always-escalating policy; the engine runs
\* each continuation it has scheduled and the fetch collaborator completes
EscalationSpec == Init /\ [][EscalationNext]_vars /\ WF_vars(EscalationNext)

\* the always-accept validator
ValidatorSpec == Init /\ [][ValidatorNext]_vars

----------------------------------------------------------------------------
(* Claims about the store *)

SetDefaultIdentityDone == ret.op = "setDefaultIdentityInternal"

\* C1 as stated: after setDefaultIdentity(n), getDefaultIdentity() returns n if
\* and only if identityExists(n) held when the set was made (ret.arg), and
\* otherwise reads back as the empty name.
C1_DefaultIffExists ==
  SetDefaultIdentityDone =>
    /\ (getDefaultIdentity = ret.name) <=> ret.arg
    /\ ~ret.arg => getDefaultIdentity = EmptyName

\* C1 amended: after setDefaultIdentity(n), getDefaultIdentity() returns n when
\* identityExists(n) held at the set and the empty name when it did not; for
\* every non-empty n it therefore returns n if and only if n existed.
C1_DefaultAfterSet ==
  SetDefaultIdentityDone =>
    /\ ret.arg => getDefaultIdentity = ret.name
    /\ ~ret.arg => getDefaultIdentity = EmptyName
    /\ ret.name # EmptyName => ((getDefaultIdentity = ret.name) <=> ret.arg)

\* C1 witness: a set to a non-empty name that is absent, made on a store whose
\* identity table is not empty, reads back as the empty name.
C1_Witness ==
  /\ SetDefaultIdentityDone
  /\ ret.name # EmptyName
  /\ ~ret.arg
  /\ m_identityStore # << >>
  /\ getDefaultIdentity = EmptyName

\* C2: the default key name and the default certificate name, when not empty,
\* name an entry of the key store and of the certificate store.
C2_DefaultsExist ==
  /\ \A id \in IdentityNames :
       getDefaultKeyNameForIdentity(id) # EmptyName
         => doesPublicKeyExist(getDefaultKeyNameForIdentity(id))
  /\ \A k \in KeyNames :
       getDefaultCertificateNameForKey(k) # EmptyName
         => doesCertificateExist(getDefaultCertificateNameForKey(k))

\* C3: after addCertificate(c) the certificate name, the key name and the
\* key name's parent identity all exist and getCertificate(name) returns c.
C3_AddCertificate ==
  ret.op = "addCertificate" =>
    /\ doesCertificateExist(ret.arg.name)
    /\ doesPublicKeyExist(ret.arg.publicKeyName)
    /\ doesIdentityExist(getPrefix(ret.arg.publicKeyName))
    /\ GetCertificateResult(ret.arg.name) = [err |-> NoError, val |-> ret.arg]

\* C3 witness: addCertificate has run and its certificate reads back, on a
\* store that holds two key names, one of them with other key bits than the
\* certificate's.
C3_Witness ==
  /\ ret.op = "addCertificate"
  /\ Cardinality(DOMAIN m_keyStore) = 2
  /\ \E k \in KeyNames : /\ doesPublicKeyExist(k)
                         /\ m_keyStore[toUri(k)].key # ret.arg.publicKeyInfo
  /\ GetCertificateResult(ret.arg.name).val = ret.arg

\* C8: a step of addPublicKey(K, type, B) ends with identityExists(parent(K)),
\* getPublicKey(K) = B, and every record under another key name as it was.
C8_AddPublicKey ==
  [][\A k \in KeyNames :
       (ret'.op = "addPublicKey" /\ ret'.name = k) =>
         /\ doesIdentityExist(getPrefix(k))'
         /\ GetPublicKeyResult(k)' = [err |-> NoError, val |-> ret'.arg[2]]
         /\ \A u \in DOMAIN m_keyStore :
              u # toUri(k) => u \in DOMAIN m_keyStore' /\ m_keyStore'[u] = m_keyStore[u]
         /\ DOMAIN m_keyStore' = DOMAIN m_keyStore \cup {toUri(k)}]_vars

\* C8 witness: addPublicKey has replaced nothing else: two key names are stored
\* and the one just added reads back the key just passed.
C8_Witness ==
  /\ ret.op = "addPublicKey"
  /\ Cardinality(DOMAIN m_keyStore) = 2
  /\ GetPublicKeyResult(ret.name).val = ret.arg[2]
  /\ ret.arg[2] = MaxKeyBits

\* C9: getPublicKey(K) throws exactly when K is not in the key store,
\* getCertificate(N) throws exactly when N is not in the certificate store,
\* and neither lookup changes a table or a default.
C9_Lookups ==
  [][\A n \in KeyNames \cup CertNames :
       /\ (ret'.op = "getPublicKey" /\ ret'.name = n) =>
            /\ (ret'.err # NoError) <=> ~doesPublicKeyExist(n)
            /\ UNCHANGED storeVars
       /\ (ret'.op = "getCertificate" /\ ret'.name = n) =>
            /\ (ret'.err # NoError) <=> ~doesCertificateExist(n)
            /\ UNCHANGED storeVars]_vars

\* C9 witness: a lookup has failed on a store that is not empty.
C9_Witness ==
  /\ ret.op \in {"getPublicKey", "getCertificate"}
  /\ ret.err # NoError
  /\ m_keyStore # << >>
  /\ m_certificateStore # << >>

UnsupportedOps ==
  { "revokeIdentity", "getAllIdentities", "getAllKeyNames", "getAllKeyNamesOfIdentity",
    "getAllCertificateNames", "getAllCertificateNamesOfKey", "deleteCertificateInfo",
    "deletePublicKeyInfo", "deleteIdentityInfo" }

\* C10: every enumeration, every deletion and revokeIdentity ends with an
\* error and leaves the tables, the defaults and the caller's list as they were
\* (ret.arg is the list the caller passed, ret.val the list after the call).
C10_Unsupported ==
  [][ret'.op \in UnsupportedOps =>
       /\ ret'.err # NoError
       /\ ret'.val = ret'.arg
       /\ UNCHANGED storeVars]_vars

\* C10 witness: an unsupported call has ended on a store with an identity, a
\* key and a certificate, with a caller's list that is not empty.
C10_Witness ==
  /\ ret.op \in UnsupportedOps
  /\ ret.err # NoError
  /\ ret.arg # << >>
  /\ m_identityStore # << >>
  /\ m_certificateStore # << >>

\* no URI occurs twice in m_identityStore
NoDuplicateIdentity ==
  \A i, j \in 1..Len(m_identityStore) :
    m_identityStore[i] = m_identityStore[j] => i = j

\* C11: the identity table never holds a name twice, and a step of
\* addIdentity(n) taken when identityExists(n) holds changes no table and no
\* default (so a second addIdentity(n) leaves the store of the first).
C11_AddIdentityIdempotent ==
  /\ []NoDuplicateIdentity
  /\ [][\A n \in IdentityNames :
         (ret'.op = "addIdentity" /\ ret'.name = n /\ doesIdentityExist(n))
           => UNCHANGED storeVars]_vars

\* C11 witness: addIdentity(n) has just run on a store that holds a key whose
\* parent is n, so n was already present; the table holds n once.
C11_Witness ==
  /\ ret.op = "addIdentity"
  /\ \E k \in KeyNames : doesPublicKeyExist(k) /\ getPrefix(k) = ret.name
  /\ Len(SelectSeq(m_identityStore, LAMBDA u : u = toUri(ret.name))) = 1

\* C14: every key name of the key table has its parent identity in the
\* identity table, and every certificate of the certificate table has its key
\* name in the key table.
C14_ReferentialIntegrity ==
  /\ \A u \in DOMAIN m_keyStore :
       FindIdentity(m_identityStore, toUri(getPrefix(NameFromUri(u))))
  /\ \A u \in DOMAIN m_certificateStore :
       toUri(m_certificateStore[u].publicKeyName) \in DOMAIN m_keyStore

\* C14 witness: a store with two keys under different identities and a
\* certificate.
C14_Witness ==
  /\ Cardinality(DOMAIN m_keyStore) = 2
  /\ Len(m_identityStore) = 2
  /\ m_certificateStore # << >>

\* C15: a step of the default-key setter makes getDefaultKeyNameForIdentity
\* return the key name passed for every identity argument, a step of the
\* default-certificate setter makes getDefaultCertificateNameForKey return the
\* certificate name passed for every key argument, and every other step leaves
\* what the two accessors return as it was.
C15_OneDefaultForAll ==
  [][/\ \A id \in IdentityNames :
          getDefaultKeyNameForIdentity(id)' =
            (IF ret'.op = "setDefaultKeyNameForIdentityInternal"
             THEN ret'.name ELSE getDefaultKeyNameForIdentity(id))
      /\ \A k \in KeyNames :
          getDefaultCertificateNameForKey(k)' =
            (IF ret'.op = "setDefaultCertificateNameForKeyInternal"
             THEN ret'.name ELSE getDefaultCertificateNameForKey(k))]_vars

\* C15 witness: the default key was set last, and an identity that does not
\* own that key is given it as its default key.
C15_Witness ==
  /\ ret.op = "setDefaultKeyNameForIdentityInternal"
  /\ \E id \in IdentityNames :
       /\ getPrefix(ret.name) # id
       /\ getDefaultKeyNameForIdentity(id) = ret.name
  /\ m_defaultCert # EmptyName

\* what C16 says of the key record in a step of addCertificate(c): afterwards
\* getPublicKey(c's key name) returns c's key and the record's type is RSA
KeyRecordReplaced(c) ==
  /\ GetPublicKeyResult(c.publicKeyName)' = [err |-> NoError, val |-> c.publicKeyInfo]
  /\ m_keyStore'[toUri(c.publicKeyName)].keyType = KEY_TYPE_RSA

\* C16 as stated: a step of addCertificate(c) replaces the key record under c's
\* key name K by (RSA, c's key), and every certificate stored before under K
\* is still stored and unchanged.
C16_KeyReplacedCertsKept ==
  [][\A c \in MoreCertificates :
       (ret'.op = "addCertificate" /\ ret'.arg = c) =>
         /\ KeyRecordReplaced(c)
         /\ \A u \in DOMAIN m_certificateStore :
              m_certificateStore[u].publicKeyName = c.publicKeyName =>
                /\ u \in DOMAIN m_certificateStore'
                /\ m_certificateStore'[u] = m_certificateStore[u]]_vars

\* C16 amended: a step of addCertificate(c) replaces the key record under c's
\* key name K by (RSA, c's key), and every certificate stored before under K
\* with a certificate name other than c's is still stored and unchanged (the
\* record under c's own name is replaced by c).
C16_KeyReplacedOtherCertsKept ==
  [][\A c \in MoreCertificates :
       (ret'.op = "addCertificate" /\ ret'.arg = c) =>
         /\ KeyRecordReplaced(c)
         /\ m_certificateStore'[toUri(c.name)] = c
         /\ \A u \in DOMAIN m_certificateStore :
              (m_certificateStore[u].publicKeyName = c.publicKeyName
                 /\ u # toUri(c.name)) =>
                /\ u \in DOMAIN m_certificateStore'
                /\ m_certificateStore'[u] = m_certificateStore[u]]_vars

\* C16 witness: addCertificate(c) has run, getPublicKey(K) returns c's key, and
\* a certificate stored under another name for the same K, certifying other
\* key bits, is still in the certificate table.
C16_Witness ==
  /\ ret.op = "addCertificate"
  /\ GetPublicKeyResult(ret.arg.publicKeyName).val = ret.arg.publicKeyInfo
  /\ \E u \in DOMAIN m_certificateStore :
       /\ u # toUri(ret.name)
       /\ m_certificateStore[u].publicKeyName = ret.arg.publicKeyName
       /\ m_certificateStore[u].publicKeyInfo # ret.arg.publicKeyInfo

----------------------------------------------------------------------------
(* Claims about ValidatorNull *)

\* C4: when checkPolicy returns, onValidated has been called exactly once, with
\* the item, onValidationFailed has not been called, and nextSteps is as the
\* caller passed it, for every item and every step budget.
C4_AlwaysAccept ==
  vpc = "returned" =>
    /\ onValidatedCalls = <<vcall.item>>
    /\ onValidationFailedCalls = << >>
    /\ nextSteps = vcall.nextSteps

\* C4 witness: checkPolicy has returned for an Interest with a step budget of 0
\* and a nextSteps vector that already held requests.
C4_Witness ==
  /\ vpc = "returned"
  /\ vcall.item.kind = "Interest"
  /\ vcall.nSteps = 0
  /\ vcall.nextSteps # << >>
  /\ onValidatedCalls = <<vcall.item>>

----------------------------------------------------------------------------
(* Claims about Certificate::encode and Certificate::decode *)

\* a decode has ended, by decode() or by the constructor from Data
DecodeDone == cpc \in {"decoded", "constructed"}

\* the certificates of the schema: a subject, an ordered validity, a key
InSchema(c) ==
  /\ c.m_subjectDescriptionList # << >>
  /\ c.m_notBefore <= c.m_notAfter
  /\ c.m_key # EmptyKey

C6_AllOrNothing ==
  (DecodeDone /\ threw) => rcv \in {NoCertificate, DefaultCertificate}

\* C7: a certificate that decoding produced without an error has
\* notBefore <= notAfter.
C7_ValidityOrdered ==
  (DecodeDone /\ ~threw) => rcv.m_notBefore <= rcv.m_notAfter

\* C12: for a certificate with notBefore = t0 < t1 = notAfter, isTooEarly()
\* returns true exactly when the clock it read is before t0 (false at t0 and
\* after), isTooLate() returns true exactly when the clock it read is after t1
\* (false at t1 and before), and at one clock reading neither returns true
\* exactly when t0 <= now <= t1.
C12_ValidityBoundary ==
  LET t0 == cert.m_notBefore
      t1 == cert.m_notAfter
  IN (cpc = "checked" /\ t0 < t1) =>
       /\ tooEarly.called => (tooEarly.result <=> tooEarly.now < t0)
       /\ tooLate.called => (tooLate.result <=> tooLate.now > t1)
       /\ (tooEarly.called /\ tooLate.called /\ tooEarly.now = tooLate.now) =>
            ((~tooEarly.result /\ ~tooLate.result)
               <=> (t0 <= tooEarly.now /\ tooEarly.now <= t1))

\* C12 witness: both checks have run on a certificate with t0 < t1, isTooEarly()
\* at the boundary t0 and isTooLate() at the boundary t1, and both returned false.
C12_Witness ==
  /\ cpc = "checked"
  /\ cert.m_notBefore < cert.m_notAfter
  /\ tooEarly.called /\ tooEarly.now = cert.m_notBefore /\ ~tooEarly.result
  /\ tooLate.called /\ tooLate.now = cert.m_notAfter /\ ~tooLate.result
----------------------------------------------------------------------------
(* Claims about the trust-chain engine *)

\* the step counter of the parent of the i-th ValidationRequest
ParentSteps(i) == IF i = 1 THEN top.nSteps ELSE requests[i - 1].nSteps

\* the top-level call has ended with one depth-exceeded failure and no success
DepthExceeded ==
  /\ epc = "failed"
  /\ Len(outcome) = 1
  /\ outcome[1].continuation = "onValidationFailed"
  /\ outcome[1].item = top.item
  /\ outcome[1].reason = "validation depth exceeded"

\* C13: with the always-escalating policy and a step budget of N, a top-level
\* validate call makes at most N escalations, each ValidationRequest carries a
\* step counter one lower than its parent's (never below zero), no continuation
\* is invoked before the end, and the call ends with exactly one depth-exceeded
\* failure delivered through the failure continuation.
C13_DepthBound ==
  /\ [](Len(requests) <= top.nSteps)
  /\ [](\A i \in 1..Len(requests) :
          requests[i].nSteps = ParentSteps(i) - 1 /\ requests[i].nSteps >= 0)
  /\ [](IF epc = "failed" THEN DepthExceeded ELSE outcome = << >>)
  /\ ((epc = "policy") ~> DepthExceeded)

\* C13 witness: a call with a budget of at least two has ended with the
\* depth-exceeded failure after exactly as many escalations as its budget.
C13_Witness ==
  /\ DepthExceeded
  /\ top.nSteps >= 2
  /\ Len(requests) = top.nSteps
  /\ requests[Len(requests)].nSteps = 0
====
